---- MODULE Spec2Model ----
(***************************************************************************)
(* Model of pptools.util.bijection: the KeyLoc enumeration, the            *)
(* BijectionKeyConflict error, the two BijectionMap views of a Bijection   *)
(* and the Bijection set interface (add, discard, update_left,             *)
(* update_right).                                                          *)
(*                                                                         *)
(* A Python dict is a TLA+ function whose DOMAIN is the set of its keys.   *)
(* The two dicts of a Bijection (ltr.dict and rtl.dict) are two separate   *)
(* variables, written independently, exactly as the two BijectionMap       *)
(* objects write them.  An iterable of pairs or a mapping handed to an     *)
(* operation is a sequence of <<key, value>> items in iteration order.     *)
(* An exception is the pair (raised, excargs): the exception type and its  *)
(* args tuple.                                                             *)
(*                                                                         *)
(* A behaviour is one caller working on one Bijection: it constructs it    *)
(* (Init), makes a call (one action per operation, which leaves the call,  *)
(* its outcome and the dicts before the call in call, raised, excargs and  *)
(* pre), takes control back (Return) and makes the next call.              *)
(*                                                                         *)
(* The key functions built on the Bijection (make_keymap of                *)
(* pptools.bibliography, reduce_key and assign_reduced_keys of             *)
(* paperpile_tools.bibliography, iter_letters and dedup_key of             *)
(* pptools.util.misc) take no bijection of the caller's: KeySpec is a      *)
(* caller that makes one such call after another, and result holds what    *)
(* the call returned.  LocSpec is the same for the conversions of KeyLoc   *)
(* and BijectionKeyConflict.  DbSpec is a caller with a bibliography       *)
(* database (db) who rekeys it with update_keys and reverts the result     *)
(* with revert_keys (paperpile_tools.bibliography), or reverts db with     *)
(* revert_keys of pptools.bibliography.  LoopSpec is dedup_key run one     *)
(* turn of its loop at a time, with the position of its suffix generator   *)
(* (suffixes).                                                             *)
(***************************************************************************)
EXTENDS Integers, Sequences, FiniteSets, TLC

\* Keys are drawn from 1..MaxKey on both sides of the bijection.
MaxKey == 3
\* Longest iterable of pairs / mapping handed to a constructor or a merge.
MaxOther == 2
\* Longest list of keys handed to make_keymap.
MaxList == 3
\* Longest list of citation keys handed to assign_reduced_keys.
MaxStrList == 2
\* Most pairs in the keymap handed to assign_reduced_keys.
MaxMap == 1
\* dedup_key: the collection of existing keys holds up to the first MaxTaken
\* suffixed keys.
MaxTaken == 27
\* Entry IDs of a bibliography database are drawn from 1..MaxId.
MaxId == 2
\* Most entries in a bibliography database.
MaxDb == 2

Keys == 1..MaxKey

VARIABLES
    ltr,      \* self.ltr.dict : left key -> right key
    rtl,      \* self.rtl.dict : right key -> left key
    call,     \* the last call: [op, pair, other]; other holds the items
              \* <<key, value>> of the map merged (other.ltr, other.rtl), the
              \* pairs given to the constructor or the collection of keys
              \* given to a key function, pair the remaining arguments
    raised,   \* type of the exception the last call ended with, or "none"
    excargs,  \* args of that exception, << >> if none
    pre,      \* [ltr, rtl]: both dicts as they were when the last call began
    result,   \* what the last call returned, << >> for None
    db,       \* the entries of the caller's bibliography database, a list of
              \* dicts (DbSpec); << >> for a caller that has none
    suffixes  \* how many strings the iter_letters() generator of the last
              \* dedup_key call has yielded (LoopSpec)

vars == <<ltr, rtl, call, raised, excargs, pre, result, db, suffixes>>

----------------------------------------------------------------------------
\* KeyLoc (IntEnum) and its bit arithmetic

LEFT == 0
RIGHT == 1
FROM == 2
TO == 3

KeyLoc == {LEFT, RIGHT, FROM, TO}

Bit(a, i) == (a \div (2 ^ i)) % 2

BitAnd(a, b) == (Bit(a, 0) * Bit(b, 0)) + 2 * (Bit(a, 1) * Bit(b, 1))

BitXor(a, b) == ((Bit(a, 0) + Bit(b, 0)) % 2) + 2 * ((Bit(a, 1) + Bit(b, 1)) % 2)

BitOr(a, b) == BitXor(BitXor(a, b), BitAnd(a, b))

\* relative that tests the low bit
relative_lowbit(side) == BitAnd(side, 1) # 0

\* KeyLoc.relative: bool(self & 2)
relative(side) == BitAnd(side, 2) # 0

\* KeyLoc._checkabs: the exception it raises for an anchor, "none" if it returns
checkabs(side) == IF relative(side) THEN "ValueError" ELSE "none"

\* KeyLoc.toabs without the "& 1": the relative bit survives the conversion
KeyLoc_toabs_nomask(side, fromside) ==
    IF ~relative(side) THEN side ELSE BitXor(side, fromside)

\* KeyLoc.toabs, for an anchor that passed _checkabs
KeyLoc_toabs(side, fromside) ==
    IF ~relative(side) THEN side ELSE BitXor(BitAnd(side, 1), fromside)

\* KeyLoc.torel that ignores its anchor
KeyLoc_torel_noanchor(side, fromside) ==
    IF relative(side) THEN side ELSE BitOr(side, 2)

\* KeyLoc.torel, for an anchor that passed _checkabs
KeyLoc_torel(side, fromside) ==
    IF relative(side) THEN side ELSE BitOr(BitXor(side, fromside), 2)

\* flip that drops the relative bit
flip_lowbit(side) == BitXor(BitAnd(side, 1), 1)

\* KeyLoc.flip
flip(side) == BitXor(side, 1)

----------------------------------------------------------------------------
\* BijectionKeyConflict: args == <<keypair, side, current>>

Reversed(pair) == <<pair[2], pair[1]>>

\* BijectionKeyConflict.toabs with the early return taken on the wrong branch:
\* a relative conflict is handed back as it is
Conflict_toabs_inverted(e, fromside) ==
    IF relative(e[2]) THEN e
    ELSE <<IF fromside = LEFT THEN e[1] ELSE Reversed(e[1]),
           KeyLoc_toabs(e[2], fromside), e[3]>>

\* BijectionKeyConflict.toabs that keeps the keypair in (from, to) order for
\* either anchor
Conflict_toabs_noreverse(e, fromside) ==
    IF ~relative(e[2]) THEN e
    ELSE <<e[1], KeyLoc_toabs(e[2], fromside), e[3]>>

\* BijectionKeyConflict.toabs, for an anchor that passed _checkabs
Conflict_toabs(e, fromside) ==
    IF ~relative(e[2]) THEN e
    ELSE <<IF fromside = LEFT THEN e[1] ELSE Reversed(e[1]),
           KeyLoc_toabs(e[2], fromside), e[3]>>

\* BijectionKeyConflict.torel that keeps the keypair as it is for either anchor
Conflict_torel_noreverse(e, fromside) ==
    IF relative(e[2]) THEN e
    ELSE <<e[1], KeyLoc_torel(e[2], fromside), e[3]>>

\* BijectionKeyConflict.torel, for an anchor that passed _checkabs
Conflict_torel(e, fromside) ==
    IF relative(e[2]) THEN e
    ELSE <<IF fromside = LEFT THEN e[1] ELSE Reversed(e[1]),
           KeyLoc_torel(e[2], fromside), e[3]>>

----------------------------------------------------------------------------
\* Python dicts

EmptyDict == << >>

DictPut(d, k, v) == [x \in (DOMAIN d) \cup {k} |-> IF x = k THEN v ELSE d[x]]

DictRemove(d, k) == [x \in (DOMAIN d) \ {k} |-> d[x]]

\* The outcome of a BijectionMap method: the map's own dict, the dict of
\* self.other, and the exception it ended with.
Outcome(d, o, exc, a) == [dict |-> d, other |-> o, raised |-> exc, args |-> a]

\* __setitem__ that never writes self.other.dict
setitem_noreverse(d, o, key, value) ==
    IF key \in DOMAIN d
    THEN IF d[key] # value
         THEN Outcome(d, o, "BijectionKeyConflict", <<<<key, value>>, TO, d[key]>>)
         ELSE Outcome(d, o, "none", << >>)
    ELSE IF value \in DOMAIN o
    THEN IF o[value] # key
         THEN Outcome(d, o, "BijectionKeyConflict", <<<<key, value>>, FROM, o[value]>>)
         ELSE Outcome(d, o, "none", << >>)
    ELSE Outcome(DictPut(d, key, value), o, "none", << >>)

\* __setitem__ that looks at the opposite view before its own dict
setitem_valuefirst(d, o, key, value) ==
    IF value \in DOMAIN o /\ o[value] # key
    THEN Outcome(d, o, "BijectionKeyConflict", <<<<key, value>>, FROM, o[value]>>)
    ELSE IF key \in DOMAIN d
    THEN IF d[key] # value
         THEN Outcome(d, o, "BijectionKeyConflict", <<<<key, value>>, TO, d[key]>>)
         ELSE Outcome(d, o, "none", << >>)
    ELSE IF value \in DOMAIN o
    THEN Outcome(d, o, "none", << >>)
    ELSE Outcome(DictPut(d, key, value), DictPut(o, value, key), "none", << >>)

\* __setitem__ that writes self.dict[key] before it looks at the opposite view
setitem_eager(d, o, key, value) ==
    IF key \in DOMAIN d
    THEN IF d[key] # value
         THEN Outcome(d, o, "BijectionKeyConflict", <<<<key, value>>, TO, d[key]>>)
         ELSE Outcome(d, o, "none", << >>)
    ELSE IF value \in DOMAIN o
    THEN IF o[value] # key
         THEN Outcome(DictPut(d, key, value), o, "BijectionKeyConflict",
                      <<<<key, value>>, FROM, o[value]>>)
         ELSE Outcome(d, o, "none", << >>)
    ELSE Outcome(DictPut(d, key, value), DictPut(o, value, key), "none", << >>)

\* __setitem__ that rejects every key it already holds, equal value or not
setitem_strict(d, o, key, value) ==
    IF key \in DOMAIN d
    THEN Outcome(d, o, "BijectionKeyConflict", <<<<key, value>>, TO, d[key]>>)
    ELSE IF value \in DOMAIN o
    THEN IF o[value] # key
         THEN Outcome(d, o, "BijectionKeyConflict", <<<<key, value>>, FROM, o[value]>>)
         ELSE Outcome(d, o, "none", << >>)
    ELSE Outcome(DictPut(d, key, value), DictPut(o, value, key), "none", << >>)

\* __setitem__ that gives a key it already holds its new value, where the code
\* raises the TO conflict
setitem_replace(d, o, key, value) ==
    IF key \in DOMAIN d /\ d[key] # value /\ value \notin DOMAIN o
    THEN Outcome(DictPut(d, key, value),
                 DictPut(DictRemove(o, d[key]), value, key), "none", << >>)
    ELSE IF key \in DOMAIN d
    THEN IF d[key] # value
         THEN Outcome(d, o, "BijectionKeyConflict", <<<<key, value>>, TO, d[key]>>)
         ELSE Outcome(d, o, "none", << >>)
    ELSE IF value \in DOMAIN o
    THEN IF o[value] # key
         THEN Outcome(d, o, "BijectionKeyConflict", <<<<key, value>>, FROM, o[value]>>)
         ELSE Outcome(d, o, "none", << >>)
    ELSE Outcome(DictPut(d, key, value), DictPut(o, value, key), "none", << >>)

\* BijectionMap.__setitem__ on the view with dict d whose other view has dict o
setitem(d, o, key, value) ==
    IF key \in DOMAIN d
    THEN IF d[key] # value
         THEN Outcome(d, o, "BijectionKeyConflict", <<<<key, value>>, TO, d[key]>>)
         ELSE Outcome(d, o, "none", << >>)
    ELSE IF value \in DOMAIN o
    THEN IF o[value] # key
         THEN Outcome(d, o, "BijectionKeyConflict", <<<<key, value>>, FROM, o[value]>>)
         ELSE Outcome(d, o, "none", << >>)
    ELSE Outcome(DictPut(d, key, value), DictPut(o, value, key), "none", << >>)

\* __delitem__ that pops its own dict and leaves self.other.dict alone
delitem_oneside(d, o, key) ==
    IF key \notin DOMAIN d
    THEN Outcome(d, o, "KeyError", <<key>>)
    ELSE Outcome(DictRemove(d, key), o, "none", << >>)

\* __delitem__ with dict.pop(key, None): a missing key is not an error
delitem_quiet(d, o, key) ==
    IF key \notin DOMAIN d
    THEN Outcome(d, o, "none", << >>)
    ELSE IF d[key] \notin DOMAIN o
    THEN Outcome(DictRemove(d, key), o, "KeyError", <<d[key]>>)
    ELSE Outcome(DictRemove(d, key), DictRemove(o, d[key]), "none", << >>)

\* BijectionMap.__delitem__: dict.pop(key), then del other.dict[value]
delitem(d, o, key) ==
    IF key \notin DOMAIN d
    THEN Outcome(d, o, "KeyError", <<key>>)
    ELSE IF d[key] \notin DOMAIN o
    THEN Outcome(DictRemove(d, key), o, "KeyError", <<d[key]>>)
    ELSE Outcome(DictRemove(d, key), DictRemove(o, d[key]), "none", << >>)

\* MutableMapping.update(mapping) on a BijectionMap, from item i on:
\* for key in mapping: self[key] = mapping[key], stopping at the first raise
RECURSIVE map_update(_, _, _, _)
map_update(d, o, items, i) ==
    IF i > Len(items) THEN Outcome(d, o, "none", << >>)
    ELSE LET s == setitem(d, o, items[i][1], items[i][2])
         IN  IF s.raised # "none" THEN s
             ELSE map_update(s.dict, s.other, items, i + 1)

----------------------------------------------------------------------------
\* Inputs

BoundedSeq(S, n) == UNION {[1..m -> S] : m \in 0..n}

\* Iterables of pairs
PairSeqs == BoundedSeq(Keys \X Keys, MaxOther)

DistinctAt(items, c) ==
    \A i, j \in 1..Len(items) : items[i][c] = items[j][c] => i = j

\* A Bijection, as its pairs <<left, right>> in insertion order
BijectionPairs == {ps \in PairSeqs : DistinctAt(ps, 1) /\ DistinctAt(ps, 2)}

\* A plain mapping (dict), as its items <<key, value>> in insertion order
MappingItems == {ps \in PairSeqs : DistinctAt(ps, 1)}

\* other.rtl of a Bijection: the same pairs seen from the right
RtlItems(ps) == [i \in 1..Len(ps) |-> Reversed(ps[i])]

Call(op, pair, other) == [op |-> op, pair |-> pair, other |-> other]

Snapshot == [ltr |-> ltr, rtl |-> rtl]

\* No call is in progress or awaiting inspection: the caller is about to make
\* its next call on the bijection.
NoCall == Call("ready", << >>, << >>)

Ready == call = NoCall

\* The return value None
NoResult == << >>

----------------------------------------------------------------------------
\* Bijection.  In an action, s is the outcome of the BijectionMap method the
\* operation runs.

\* Bijection.__init__(pairs): both branches assign ltr[left] = right in order
\* A constructor that keeps the pairs it can add and drops the others
RECURSIVE init_drop(_, _, _, _)
init_drop(d, o, pairs, i) ==
    IF i > Len(pairs) THEN Outcome(d, o, "none", << >>)
    ELSE LET s == setitem(d, o, pairs[i][1], pairs[i][2])
         IN  init_drop(s.dict, s.other, pairs, i + 1)

Bijection_init_drop(pairs) == init_drop(EmptyDict, EmptyDict, pairs, 1)

Bijection_init(pairs) == map_update(EmptyDict, EmptyDict, pairs, 1)

\* __contains__ that only looks for the left key
contains_leftonly(l2r, pair) == pair[1] \in DOMAIN l2r

\* Bijection.__contains__ for a 2-tuple
contains(l2r, pair) == pair[1] \in DOMAIN l2r /\ l2r[pair[1]] = pair[2]

\* self = Bijection(pairs), for every iterable of pairs (the empty one gives
\* Bijection()).  When __init__ raises, the caller holds no bijection: the
\* dicts are those of the object under construction and no call follows.
Init ==
    \E pairs \in PairSeqs :
        LET s == Bijection_init(pairs)
        IN  /\ ltr = s.dict
            /\ rtl = s.other
            /\ call = Call("Bijection", << >>, pairs)
            /\ raised = s.raised
            /\ excargs = s.args
            /\ pre = [ltr |-> EmptyDict, rtl |-> EmptyDict]
            /\ db = << >>
            /\ suffixes = 0
            /\ result = NoResult

\* self.ltr[key] = value
LtrSet ==
    /\ Ready
    /\ \E key, value \in Keys :
       \E s \in {setitem(ltr, rtl, key, value)} :
        /\ call' = Call("ltr_set", <<key, value>>, << >>)
        /\ pre' = Snapshot
        /\ db' = db
        /\ suffixes' = suffixes
        /\ result' = NoResult
        /\ raised' = s.raised
        /\ excargs' = s.args
        /\ ltr' = s.dict
        /\ rtl' = s.other

\* self.rtl[key] = value
RtlSet ==
    /\ Ready
    /\ \E key, value \in Keys :
       \E s \in {setitem(rtl, ltr, key, value)} :
        /\ call' = Call("rtl_set", <<key, value>>, << >>)
        /\ pre' = Snapshot
        /\ db' = db
        /\ suffixes' = suffixes
        /\ result' = NoResult
        /\ raised' = s.raised
        /\ excargs' = s.args
        /\ rtl' = s.dict
        /\ ltr' = s.other

\* del self.ltr[key]
LtrDel ==
    /\ Ready
    /\ \E key \in Keys :
       \E s \in {delitem(ltr, rtl, key)} :
        /\ call' = Call("ltr_del", <<key>>, << >>)
        /\ pre' = Snapshot
        /\ db' = db
        /\ suffixes' = suffixes
        /\ result' = NoResult
        /\ raised' = s.raised
        /\ excargs' = s.args
        /\ ltr' = s.dict
        /\ rtl' = s.other

\* del self.rtl[key]
RtlDel ==
    /\ Ready
    /\ \E key \in Keys :
       \E s \in {delitem(rtl, ltr, key)} :
        /\ call' = Call("rtl_del", <<key>>, << >>)
        /\ pre' = Snapshot
        /\ db' = db
        /\ suffixes' = suffixes
        /\ result' = NoResult
        /\ raised' = s.raised
        /\ excargs' = s.args
        /\ rtl' = s.dict
        /\ ltr' = s.other

\* Bijection._update, first loop: del self_map[key] for every key of
\* other_map, a KeyError making the loop continue with the next key
RECURSIVE evict(_, _, _, _)
evict(d, o, items, i) ==
    IF i > Len(items) THEN Outcome(d, o, "none", << >>)
    ELSE LET s == delitem(d, o, items[i][1])
         IN  evict(s.dict, s.other, items, i + 1)

\* _update whose insertions sit under "except KeyError: continue" as well, so
\* that a BijectionKeyConflict (a KeyError) is swallowed
RECURSIVE insert_swallow(_, _, _, _)
insert_swallow(d, o, items, i) ==
    IF i > Len(items) THEN Outcome(d, o, "none", << >>)
    ELSE LET s == setitem(d, o, items[i][1], items[i][2])
         IN  insert_swallow(s.dict, s.other, items, i + 1)

update_swallow(d, o, items) ==
    LET e == evict(d, o, items, 1)
    IN  insert_swallow(e.dict, e.other, items, 1)

\* _update whose eviction loop says "break" where the code says "continue"
RECURSIVE evict_break(_, _, _, _)
evict_break(d, o, items, i) ==
    IF i > Len(items) THEN Outcome(d, o, "none", << >>)
    ELSE LET s == delitem(d, o, items[i][1])
         IN  IF s.raised # "none" THEN Outcome(s.dict, s.other, "none", << >>)
             ELSE evict_break(s.dict, s.other, items, i + 1)

update_evictbreak(d, o, items) ==
    LET e == evict_break(d, o, items, 1)
    IN  map_update(e.dict, e.other, items, 1)

\* _update made transactional: a conflict restores both dicts
update_rollback(d, o, items) ==
    LET e == evict(d, o, items, 1)
        r == map_update(e.dict, e.other, items, 1)
    IN  IF r.raised # "none" THEN Outcome(d, o, r.raised, r.args) ELSE r

\* Bijection._update(self_map, other_map): evict, then self_map.update(other_map)
update(d, o, items) ==
    LET e == evict(d, o, items, 1)
    IN  map_update(e.dict, e.other, items, 1)

\* from_ltr that drops the items it cannot add
from_ltr_drop(mapping) == init_drop(EmptyDict, EmptyDict, mapping, 1)

\* Bijection.from_ltr(mapping) / Bijection.from_rtl(mapping): update() of the
\* ltr (rtl) view of a new Bijection.  When it returns, the view iterates in
\* the order of the mapping's items.
from_ltr(mapping) == map_update(EmptyDict, EmptyDict, mapping, 1)

from_rtl(mapping) == map_update(EmptyDict, EmptyDict, mapping, 1)

\* self.add((left, right))
Add ==
    /\ Ready
    /\ \E left, right \in Keys :
       \E s \in {setitem(ltr, rtl, left, right)} :
        /\ call' = Call("add", <<left, right>>, << >>)
        /\ pre' = Snapshot
        /\ db' = db
        /\ suffixes' = suffixes
        /\ result' = NoResult
        /\ raised' = s.raised
        /\ excargs' = IF s.raised = "BijectionKeyConflict"
                      THEN Conflict_toabs(s.args, LEFT) ELSE s.args
        /\ ltr' = s.dict
        /\ rtl' = s.other

\* self.discard((left, right))
Discard ==
    /\ Ready
    /\ \E left, right \in Keys :
       \E s \in {IF ~contains(ltr, <<left, right>>)
                  THEN Outcome(ltr, rtl, "KeyError", <<<<left, right>>>>)
                  ELSE delitem(ltr, rtl, left)} :
        /\ call' = Call("discard", <<left, right>>, << >>)
        /\ pre' = Snapshot
        /\ db' = db
        /\ suffixes' = suffixes
        /\ result' = NoResult
        /\ raised' = s.raised
        /\ excargs' = s.args
        /\ ltr' = s.dict
        /\ rtl' = s.other

\* self.update_left(other).  With wrap = FALSE other is a Bijection, given as
\* its pairs <<left, right>>; with wrap = TRUE it is a mapping left -> right,
\* given as its items, which from_ltr wraps outside the try.
UpdateLeft ==
    /\ Ready
    /\ \E wrap \in BOOLEAN :
       \E other \in (IF wrap THEN MappingItems ELSE BijectionPairs) :
       \E w \in {IF wrap THEN from_ltr(other)
                  ELSE Outcome(EmptyDict, EmptyDict, "none", << >>)} :
       \E s \in {update(ltr, rtl, other)} :
        /\ call' = Call("update_left", << >>, other)
        /\ pre' = Snapshot
        /\ db' = db
        /\ suffixes' = suffixes
        /\ result' = NoResult
        /\ IF w.raised # "none"
           THEN /\ raised' = w.raised
                /\ excargs' = w.args
                /\ UNCHANGED <<ltr, rtl>>
           ELSE /\ raised' = s.raised
                /\ excargs' = IF s.raised = "BijectionKeyConflict"
                              THEN Conflict_toabs(s.args, LEFT) ELSE s.args
                /\ ltr' = s.dict
                /\ rtl' = s.other

\* self.update_right(other).  With wrap = FALSE other is a Bijection, given as
\* its pairs <<left, right>> and merged through other.rtl; with wrap = TRUE it
\* is a mapping right -> left, given as its items, which from_rtl wraps
\* outside the try.
UpdateRight ==
    /\ Ready
    /\ \E wrap \in BOOLEAN :
       \E other \in (IF wrap THEN MappingItems ELSE BijectionPairs) :
       \E items \in {IF wrap THEN other ELSE RtlItems(other)} :
       \E w \in {IF wrap THEN from_rtl(other)
                  ELSE Outcome(EmptyDict, EmptyDict, "none", << >>)} :
       \E s \in {update(rtl, ltr, items)} :
        /\ call' = Call("update_right", << >>, items)
        /\ pre' = Snapshot
        /\ db' = db
        /\ suffixes' = suffixes
        /\ result' = NoResult
        /\ IF w.raised # "none"
           THEN /\ raised' = w.raised
                /\ excargs' = w.args
                /\ UNCHANGED <<ltr, rtl>>
           ELSE /\ raised' = s.raised
                /\ excargs' = IF s.raised = "BijectionKeyConflict"
                              THEN Conflict_toabs(s.args, RIGHT) ELSE s.args
                /\ rtl' = s.dict
                /\ ltr' = s.other

\* The dict with the given items
DictOf(items) ==
    [k \in {items[i][1] : i \in 1..Len(items)} |->
        (CHOOSE it \in {items[i] : i \in 1..Len(items)} : it[1] = k)[2]]

\* Bijection.conflicts with (v2, v1) stored where the code stores (v1, v2)
conflicts_ltr_swapped(sl, ol) ==
    [left \in {k \in (DOMAIN sl) \cap (DOMAIN ol) : sl[k] # ol[k]} |->
        <<ol[left], sl[left]>>]

\* Bijection.conflicts, first loop: the dict ltr, from self.ltr.dict and
\* other.ltr.dict
conflicts_ltr(sl, ol) ==
    [left \in {k \in (DOMAIN sl) \cap (DOMAIN ol) : sl[k] # ol[k]} |->
        <<sl[left], ol[left]>>]

\* Bijection.conflicts, second loop: the right keys at which other.ltr[right]
\* raises KeyError
conflicts_missing(sr, ol, orl) ==
    {right \in (DOMAIN sr) \cap (DOMAIN orl) : right \notin DOMAIN ol}

\* Bijection.conflicts, second loop: the dict rtl when no lookup raised; v2 is
\* read from other.ltr
conflicts_rtl(sr, ol, orl) ==
    [right \in {k \in (DOMAIN sr) \cap (DOMAIN orl) : sr[k] # ol[k]} |->
        <<sr[right], ol[right]>>]

\* The Bijections handed to conflicts, as their pairs.  conflicts reads other
\* through its key sets and lookups only, never in insertion order, so one
\* order of the pairs stands for all of them.
ConflictsOthers ==
    {ps \in BijectionPairs : \A i \in 1..(Len(ps) - 1) : ps[i][1] < ps[i + 1][1]}

\* self.conflicts(other), other a Bijection given as its pairs.  The second
\* loop runs over a set, in an order the code does not fix: the KeyError names
\* any of the right keys that are missing from other.ltr.
Conflicts ==
    /\ Ready
    /\ \E other \in ConflictsOthers :
       \E ol \in {DictOf(other)} :
       \E orl \in {DictOf(RtlItems(other))} :
       \E missing \in {conflicts_missing(rtl, ol, orl)} :
        /\ call' = Call("conflicts", << >>, other)
        /\ pre' = Snapshot
        /\ db' = db
        /\ suffixes' = suffixes
        /\ UNCHANGED <<ltr, rtl>>
        /\ IF missing # {}
           THEN /\ raised' = "KeyError"
                /\ \E right \in missing : excargs' = <<right>>
                /\ result' = NoResult
           ELSE /\ raised' = "none"
                /\ excargs' = << >>
                /\ result' = <<conflicts_ltr(ltr, ol), conflicts_rtl(rtl, ol, orl)>>

\* An argument of __contains__: a tuple or another sequence (a list), with
\* its items
Arg(istuple, items) == [tuple |-> istuple, items |-> items]

\* __contains__ without the isinstance test: any sequence of two items counts
Bijection_contains_anyseq(l2r, arg) ==
    IF Len(arg.items) # 2 THEN FALSE
    ELSE contains(l2r, arg.items)

\* Bijection.__contains__
Bijection_contains(l2r, arg) ==
    IF ~arg.tuple \/ Len(arg.items) # 2 THEN FALSE
    ELSE contains(l2r, arg.items)

\* arg in self, for the tuples (), (l,), (l, r), (l, r, r) and the list [l, r]
Contains ==
    /\ Ready
    /\ \E l, r \in Keys :
       \E arg \in {Arg(TRUE, <<l, r>>), Arg(FALSE, <<l, r>>), Arg(TRUE, <<l>>),
                   Arg(TRUE, <<l, r, r>>), Arg(TRUE, << >>)} :
        /\ call' = Call("contains", <<arg>>, << >>)
        /\ pre' = Snapshot
        /\ db' = db
        /\ suffixes' = suffixes
        /\ raised' = "none"
        /\ excargs' = << >>
        /\ result' = Bijection_contains(ltr, arg)
        /\ UNCHANGED <<ltr, rtl>>

\* The caller has looked at the outcome of the last call (its return or the
\* exception it caught) and goes on with the same bijection.
Return ==
    /\ ~Ready
    /\ ~(call.op = "Bijection" /\ raised # "none")
    /\ call' = NoCall
    /\ raised' = "none"
    /\ excargs' = << >>
    /\ pre' = Snapshot
    /\ db' = db
    /\ suffixes' = suffixes
    /\ result' = NoResult
    /\ UNCHANGED <<ltr, rtl>>

Next ==
    \/ Return
    \/ LtrSet
    \/ RtlSet
    \/ LtrDel
    \/ RtlDel
    \/ Add
    \/ Discard
    \/ UpdateLeft
    \/ UpdateRight
    \/ Conflicts
    \/ Contains

Spec == Init /\ [][Next]_vars

----------------------------------------------------------------------------
\* Key normalization: make_keymap, assign_reduced_keys, dedup_key.
\* A str is the sequence of its characters.

\* string.ascii_lowercase
ascii_lowercase ==
    <<"a", "b", "c", "d", "e", "f", "g", "h", "i", "j", "k", "l", "m",
      "n", "o", "p", "q", "r", "s", "t", "u", "v", "w", "x", "y", "z">>

\* The character class [A-Za-z] of reduce_key's pattern
AsciiLetters ==
    {ascii_lowercase[i] : i \in 1..Len(ascii_lowercase)} \cup
    {"A", "B", "C", "D", "E", "F", "G", "H", "I", "J", "K", "L", "M",
     "N", "O", "P", "Q", "R", "S", "T", "U", "V", "W", "X", "Y", "Z"}

\* revmap.setdefault(newkey, []).append(key), revmap a dict given as its items
\* <<newkey, oldkeys>> in insertion order
setdefault_append(revmap, newkey, key) ==
    IF \E i \in 1..Len(revmap) : revmap[i][1] = newkey
    THEN [i \in 1..Len(revmap) |->
            IF revmap[i][1] = newkey
            THEN <<newkey, Append(revmap[i][2], key)>>
            ELSE revmap[i]]
    ELSE Append(revmap, <<newkey, <<key>>>>)

\* make_keymap, first loop from key i on: group the keys f changes by f(key)
RECURSIVE make_keymap_revmap(_, _, _, _)
make_keymap_revmap(keys, f, i, revmap) ==
    IF i > Len(keys) THEN revmap
    ELSE LET key == keys[i]
             newkey == f[key]
         IN  make_keymap_revmap(keys, f, i + 1,
                 IF newkey # key THEN setdefault_append(revmap, newkey, key)
                 ELSE revmap)

\* What make_keymap / assign_reduced_keys hold when they stop: the updates
\* Bijection (with the exception, if an assignment to updates.ltr raised) and
\* the conflicts dict
Keymap(updates, conflicts) == [updates |-> updates, conflicts |-> conflicts]

\* Second loop that gives a contested new key to the first of its old keys
RECURSIVE make_keymap_assign_firstwins(_, _, _, _, _)
make_keymap_assign_firstwins(revmap, i, d, o, conflicts) ==
    IF i > Len(revmap) THEN Keymap(Outcome(d, o, "none", << >>), conflicts)
    ELSE LET s == setitem(d, o, revmap[i][2][1], revmap[i][1])
         IN  IF s.raised # "none" THEN Keymap(s, conflicts)
             ELSE make_keymap_assign_firstwins(revmap, i + 1, s.dict, s.other,
                                               conflicts)

\* make_keymap, second loop from item i of revmap on
RECURSIVE make_keymap_assign(_, _, _, _, _)
make_keymap_assign(revmap, i, d, o, conflicts) ==
    IF i > Len(revmap) THEN Keymap(Outcome(d, o, "none", << >>), conflicts)
    ELSE LET newkey == revmap[i][1]
             oldkeys == revmap[i][2]
         IN  IF Len(oldkeys) = 1
             THEN LET s == setitem(d, o, oldkeys[1], newkey)
                  IN  IF s.raised # "none" THEN Keymap(s, conflicts)
                      ELSE make_keymap_assign(revmap, i + 1, s.dict, s.other,
                                              conflicts)
             ELSE make_keymap_assign(revmap, i + 1, d, o,
                                     DictPut(conflicts, newkey, oldkeys))

\* make_keymap where a group of several old keys is settled by "first wins"
make_keymap_firstwins(keys, f) ==
    make_keymap_assign_firstwins(make_keymap_revmap(keys, f, 1, << >>), 1,
                                 EmptyDict, EmptyDict, EmptyDict)

\* make_keymap that assigns every changed key to its new key at once, without
\* grouping them first
make_keymap_assignall(keys, f) ==
    Keymap(map_update(EmptyDict, EmptyDict,
                      SelectSeq([i \in 1..Len(keys) |-> <<keys[i], f[keys[i]]>>],
                                LAMBDA it : it[1] # it[2]),
                      1),
           EmptyDict)

\* make_keymap(keys, f)
make_keymap(keys, f) ==
    make_keymap_assign(make_keymap_revmap(keys, f, 1, << >>), 1,
                       EmptyDict, EmptyDict, EmptyDict)

\* reduce_key: re.fullmatch(r'.*?-[A-Za-z]{2}$', key) and key[:-3].  The
\* pattern matches the whole key when it ends with a hyphen and two letters
\* and no newline comes before the hyphen ('.' does not match one).
reduce_key(key) ==
    LET n == Len(key)
    IN  IF /\ n >= 3
           /\ key[n - 2] = "-"
           /\ key[n - 1] \in AsciiLetters
           /\ key[n] \in AsciiLetters
           /\ \A i \in 1..(n - 3) : key[i] # "\n"
        THEN SubSeq(key, 1, n - 3)
        ELSE key

\* assign_reduced_keys, first loop from key i on; left is keymap.left
RECURSIVE assign_revmap(_, _, _, _)
assign_revmap(keys, left, i, revmap) ==
    IF i > Len(keys) THEN revmap
    ELSE LET key == keys[i]
             key2 == reduce_key(key)
         IN  assign_revmap(keys, left, i + 1,
                 IF key \in left THEN revmap
                 ELSE IF key2 # key THEN setdefault_append(revmap, key2, key)
                 ELSE revmap)

\* assign_reduced_keys, second loop from item i of revmap on; right is
\* keymap.right
RECURSIVE assign_updates(_, _, _, _, _, _)
assign_updates(revmap, right, i, d, o, conflicts) ==
    IF i > Len(revmap) THEN Keymap(Outcome(d, o, "none", << >>), conflicts)
    ELSE LET reduced == revmap[i][1]
             keys == revmap[i][2]
         IN  IF Len(keys) = 1 /\ reduced \notin right
             THEN LET s == setitem(d, o, keys[1], reduced)
                  IN  IF s.raised # "none" THEN Keymap(s, conflicts)
                      ELSE assign_updates(revmap, right, i + 1, s.dict,
                                          s.other, conflicts)
             ELSE assign_updates(revmap, right, i + 1, d, o,
                                 DictPut(conflicts, reduced, keys))

\* assign_reduced_keys that does not skip the left keys of the keymap
assign_reduced_keys_noskip(keys, left, right) ==
    assign_updates(assign_revmap(keys, {}, 1, << >>), right, 1,
                   EmptyDict, EmptyDict, EmptyDict)

\* assign_reduced_keys that does not look at the right side of the keymap
assign_reduced_keys_noright(keys, left, right) ==
    assign_updates(assign_revmap(keys, left, 1, << >>), {}, 1,
                   EmptyDict, EmptyDict, EmptyDict)

\* assign_reduced_keys(keys, keymap), keymap a Bijection (get_bijection
\* returns it as it is) with left keys left and right keys right
assign_reduced_keys(keys, left, right) ==
    assign_updates(assign_revmap(keys, left, 1, << >>), right, 1,
                   EmptyDict, EmptyDict, EmptyDict)

\* itertools.product(*[string.ascii_lowercase] * i), item m (from 0) joined:
\* the last position varies fastest
product_join(i, m) ==
    [p \in 1..i |->
        ascii_lowercase[((m \div (Len(ascii_lowercase) ^ (i - p)))
                            % Len(ascii_lowercase)) + 1]]

\* iter_letters: the n-th string of the n that are still to come once all
\* strings shorter than i have been yielded
RECURSIVE iter_letters_from(_, _)
iter_letters_from(i, n) ==
    IF n <= Len(ascii_lowercase) ^ i THEN product_join(i, n - 1)
    ELSE iter_letters_from(i + 1, n - Len(ascii_lowercase) ^ i)

\* The n-th string yielded by iter_letters()
iter_letters(n) == iter_letters_from(1, n)

\* dedup_key's loop from the n-th suffix on
RECURSIVE dedup_key_from(_, _, _, _)
dedup_key_from(key, existing, sep, n) ==
    LET suffix == iter_letters(n)
        newkey == key \o sep \o suffix
    IN  IF suffix = <<"a">> /\ key \in existing
        THEN dedup_key_from(key, existing, sep, n + 1)
        ELSE IF newkey \notin existing THEN newkey
        ELSE dedup_key_from(key, existing, sep, n + 1)

\* The loop of dedup_key without the special case for the suffix "a"
RECURSIVE dedup_key_plain(_, _, _, _)
dedup_key_plain(key, existing, sep, n) ==
    LET newkey == key \o sep \o iter_letters(n)
    IN  IF newkey \notin existing THEN newkey
        ELSE dedup_key_plain(key, existing, sep, n + 1)

\* dedup_key that tries "a" whether or not the bare key is taken
dedup_key_noskip(key, existing, sep) == dedup_key_plain(key, existing, sep, 1)

\* dedup_key(key, existing, sep)
dedup_key(key, existing, sep) == dedup_key_from(key, existing, sep, 1)

\* Lists of keys handed to make_keymap, and the transforms f
KeyLists == BoundedSeq(Keys, MaxList)

Transforms == [Keys -> Keys]

\* Citation keys handed to assign_reduced_keys: with and without a "-XX"
\* ending, and with endings the pattern rejects
KeyPool ==
    {<<"a">>,
     <<"a", "-", "x", "y">>,
     <<"a", "-", "Y", "x">>,
     <<"a", "-", "x", "1">>,
     <<"a", "x", "y">>,
     <<"b", "-", "x", "y">>}

StrKeyLists == BoundedSeq(KeyPool, MaxStrList)

\* The keymaps handed to assign_reduced_keys: the ltr dict of a Bijection of
\* at most MaxMap pairs
KeymapDicts ==
    {DictOf(ps) : ps \in {qs \in BoundedSeq(KeyPool \X KeyPool, MaxMap) :
                              DistinctAt(qs, 1) /\ DistinctAt(qs, 2)}}

\* The right keys of the Bijection with ltr dict d
RightKeys(d) == {d[k] : k \in DOMAIN d}

\* The key, the separators and the collections handed to dedup_key: the
\* first t suffixed forms of a stem, all but at most one of them, with or
\* without the bare key
DedupKeys == {<<"f", "o", "o">>}

DedupSeps == {<< >>, <<"_">>}

DedupStems == {<<"f", "o", "o">>, <<"f", "o", "o", "_">>}

Existing(stem, t, hole, bare) ==
    {stem \o iter_letters(n) : n \in (1..t) \ {hole}} \cup bare

\* make_keymap(keys, f)
MakeKeymap ==
    /\ Ready
    /\ \E keys \in KeyLists : \E f \in Transforms :
       \E s \in {make_keymap(keys, f)} :
        /\ call' = Call("make_keymap", <<f>>, keys)
        /\ pre' = Snapshot
        /\ db' = db
        /\ suffixes' = suffixes
        /\ raised' = s.updates.raised
        /\ excargs' = s.updates.args
        /\ result' = IF s.updates.raised # "none" THEN NoResult
                     ELSE <<[ltr |-> s.updates.dict, rtl |-> s.updates.other],
                            s.conflicts>>
        /\ UNCHANGED <<ltr, rtl>>

\* assign_reduced_keys(keys, keymap)
AssignReducedKeys ==
    /\ Ready
    /\ \E keys \in StrKeyLists : \E keymap \in KeymapDicts :
       \E s \in {assign_reduced_keys(keys, DOMAIN keymap, RightKeys(keymap))} :
        /\ call' = Call("assign_reduced_keys", <<keymap>>, keys)
        /\ pre' = Snapshot
        /\ db' = db
        /\ suffixes' = suffixes
        /\ raised' = s.updates.raised
        /\ excargs' = s.updates.args
        /\ result' = IF s.updates.raised # "none" THEN NoResult
                     ELSE <<[ltr |-> s.updates.dict, rtl |-> s.updates.other],
                            s.conflicts>>
        /\ UNCHANGED <<ltr, rtl>>

\* dedup_key(key, existing, sep)
DedupKey ==
    /\ Ready
    /\ \E key \in DedupKeys : \E sep \in DedupSeps :
       \E stem \in DedupStems : \E t \in 0..MaxTaken : \E hole \in 0..t :
       \E bare \in SUBSET {key} :
       \E existing \in {Existing(stem, t, hole, bare)} :
        /\ call' = Call("dedup_key", <<key, sep>>, existing)
        /\ pre' = Snapshot
        /\ db' = db
        /\ suffixes' = suffixes
        /\ raised' = "none"
        /\ excargs' = << >>
        /\ result' = dedup_key(key, existing, sep)
        /\ UNCHANGED <<ltr, rtl>>

\* Bijection.identity(keys): Bijection((k, k) for k in keys)
identity(keys) == Bijection_init([i \in 1..Len(keys) |-> <<keys[i], keys[i]>>])

\* Bijection.from_ltr(mapping), mapping a dict left -> right given as its items
FromLtr ==
    /\ Ready
    /\ \E mapping \in MappingItems :
       \E s \in {from_ltr(mapping)} :
        /\ call' = Call("from_ltr", << >>, mapping)
        /\ pre' = Snapshot
        /\ db' = db
        /\ suffixes' = suffixes
        /\ raised' = s.raised
        /\ excargs' = s.args
        /\ result' = IF s.raised # "none" THEN NoResult
                     ELSE [ltr |-> s.dict, rtl |-> s.other]
        /\ UNCHANGED <<ltr, rtl>>

\* Bijection.from_rtl(mapping), mapping a dict right -> left given as its items
FromRtl ==
    /\ Ready
    /\ \E mapping \in MappingItems :
       \E s \in {from_rtl(mapping)} :
        /\ call' = Call("from_rtl", << >>, mapping)
        /\ pre' = Snapshot
        /\ db' = db
        /\ suffixes' = suffixes
        /\ raised' = s.raised
        /\ excargs' = s.args
        /\ result' = IF s.raised # "none" THEN NoResult
                     ELSE [ltr |-> s.other, rtl |-> s.dict]
        /\ UNCHANGED <<ltr, rtl>>

\* Bijection.identity(keys)
Identity ==
    /\ Ready
    /\ \E keys \in KeyLists :
       \E s \in {identity(keys)} :
        /\ call' = Call("identity", << >>, keys)
        /\ pre' = Snapshot
        /\ db' = db
        /\ suffixes' = suffixes
        /\ raised' = s.raised
        /\ excargs' = s.args
        /\ result' = IF s.raised # "none" THEN NoResult
                     ELSE [ltr |-> s.dict, rtl |-> s.other]
        /\ UNCHANGED <<ltr, rtl>>

\* The caller of the key functions holds no bijection of its own
KeyInit ==
    /\ ltr = EmptyDict
    /\ rtl = EmptyDict
    /\ call = NoCall
    /\ raised = "none"
    /\ excargs = << >>
    /\ pre = [ltr |-> EmptyDict, rtl |-> EmptyDict]
    /\ db = << >>
    /\ suffixes = 0
    /\ result = NoResult

\* keymap.rtl.dict of the Bijection whose keymap.ltr.dict is d: __setitem__
\* writes the two dicts together
rtl_dict(d) == [v \in RightKeys(d) |-> CHOOSE k \in DOMAIN d : d[k] = v]

\* The orders in which the pairs of a set can be iterated
Orders(S) ==
    {items \in [1..Cardinality(S) -> S] :
        \A i, j \in 1..Cardinality(S) : items[i] = items[j] => i = j}

\* keymap |= updates from item i on: MutableSet.__ior__ calls
\* keymap.add(pair) for each pair of updates, and add re-frames a conflict of
\* ltr[left] = right with toabs(LEFT); d and o are keymap.ltr.dict and
\* keymap.rtl.dict
RECURSIVE ior(_, _, _, _)
ior(d, o, items, i) ==
    IF i > Len(items) THEN Outcome(d, o, "none", << >>)
    ELSE LET s == setitem(d, o, items[i][1], items[i][2])
         IN  IF s.raised = "BijectionKeyConflict"
             THEN Outcome(s.dict, s.other, s.raised, Conflict_toabs(s.args, LEFT))
             ELSE ior(s.dict, s.other, items, i + 1)

\* keymap |= updates (assignkeys), for the keymap handed to the last
\* assign_reduced_keys call and the updates it returned.  The dicts of the
\* model keep no insertion order: the pairs of updates are taken in every
\* order.  result is keymap after the statement.
Ior ==
    /\ call.op = "assign_reduced_keys"
    /\ raised = "none"
    /\ \E items \in Orders({<<k, result[1].ltr[k]>> : k \in DOMAIN result[1].ltr}) :
       \E s \in {ior(call.pair[1], rtl_dict(call.pair[1]), items, 1)} :
        /\ call' = Call("ior", call.pair, items)
        /\ pre' = pre
        /\ db' = db
        /\ suffixes' = suffixes
        /\ raised' = s.raised
        /\ excargs' = s.args
        /\ result' = [ltr |-> s.dict, rtl |-> s.other]
        /\ UNCHANGED <<ltr, rtl>>

KeyNext ==
    \/ Return
    \/ MakeKeymap
    \/ AssignReducedKeys
    \/ DedupKey
    \/ FromLtr
    \/ FromRtl
    \/ Identity
    \/ Ior

KeySpec == KeyInit /\ [][KeyNext]_vars

-----------------------------------------------------------------------------
\* dedup_key statement by statement: the call makes its generator, each turn
\* of the for loop draws the next suffix from it, and the return statement
\* ends the call.  call.op is "dedup_key loop" from the call to the moment the
\* caller has the value; result is << >> until the return statement.

\* iter_letters() on a generator kept between the calls, which goes on from
\* where the call before left it
iter_letters_resumed(yielded) == yielded

\* iter_letters(): every call makes a new generator object, with i = 1 and
\* nothing yielded, whatever the generators made before have yielded
iter_letters_call(yielded) == 0

\* dedup_key(key, existing, sep) is called: `for suffix in iter_letters()`
\* makes the generator
DedupCall ==
    /\ Ready
    /\ \E key \in DedupKeys : \E sep \in DedupSeps :
       \E stem \in DedupStems : \E t \in 0..MaxTaken : \E hole \in 0..t :
       \E bare \in SUBSET {key} :
        /\ call' = Call("dedup_key loop", <<key, sep>>,
                        Existing(stem, t, hole, bare))
        /\ suffixes' = iter_letters_call(suffixes)
        /\ result' = NoResult
        /\ raised' = "none"
        /\ excargs' = << >>
        /\ UNCHANGED <<ltr, rtl, pre, db>>

\* One turn of the loop: the generator yields its next string; the turn ends
\* with continue, with return newkey, or at the end of the body
DedupLoop ==
    /\ call.op = "dedup_key loop"
    /\ result = NoResult
    /\ \E suffix \in {iter_letters(suffixes + 1)} :
       \E newkey \in {call.pair[1] \o call.pair[2] \o suffix} :
        /\ suffixes' = suffixes + 1
        /\ result' = IF suffix = <<"a">> /\ call.pair[1] \in call.other
                     THEN NoResult
                     ELSE IF newkey \notin call.other THEN newkey
                     ELSE NoResult
        /\ UNCHANGED <<ltr, rtl, call, raised, excargs, pre, db>>

\* The caller has the value dedup_key returned; the generator is not used
\* again
DedupReturn ==
    /\ call.op = "dedup_key loop"
    /\ result # NoResult
    /\ call' = NoCall
    /\ result' = NoResult
    /\ UNCHANGED <<ltr, rtl, raised, excargs, pre, db, suffixes>>

LoopNext ==
    \/ DedupCall
    \/ DedupLoop
    \/ DedupReturn

\* A loop that has a turn to take takes it: the interpreter runs the call
\* started to its end
LoopSpec == KeyInit /\ [][LoopNext]_vars /\ WF_vars(DedupLoop)

----------------------------------------------------------------------------
\* KeyLoc and BijectionKeyConflict as the caller sees them: the conversions
\* with their _checkabs call.

\* A method returned v / raised exc(*a)
Returned(v) == [raised |-> "none", args |-> << >>, value |-> v]

Raising(exc, a) == [raised |-> exc, args |-> a, value |-> NoResult]

\* toabs that looks at the anchor only after the early return
KeyLoc_toabs_latecheck(side, fromside) ==
    IF ~relative(side) THEN Returned(side)
    ELSE IF checkabs(fromside) # "none"
    THEN Raising(checkabs(fromside), <<fromside>>)
    ELSE Returned(KeyLoc_toabs(side, fromside))

\* side.toabs(fromside)
KeyLoc_toabs_call(side, fromside) ==
    IF checkabs(fromside) # "none"
    THEN Raising(checkabs(fromside), <<fromside>>)
    ELSE Returned(KeyLoc_toabs(side, fromside))

\* side.torel(fromside)
KeyLoc_torel_call(side, fromside) ==
    IF checkabs(fromside) # "none"
    THEN Raising(checkabs(fromside), <<fromside>>)
    ELSE Returned(KeyLoc_torel(side, fromside))

\* e.toabs(fromside), e a BijectionKeyConflict
Conflict_toabs_call(e, fromside) ==
    IF checkabs(fromside) # "none"
    THEN Raising(checkabs(fromside), <<fromside>>)
    ELSE Returned(Conflict_toabs(e, fromside))

\* e.torel(fromside), e a BijectionKeyConflict
Conflict_torel_call(e, fromside) ==
    IF checkabs(fromside) # "none"
    THEN Raising(checkabs(fromside), <<fromside>>)
    ELSE Returned(Conflict_torel(e, fromside))

\* BijectionKeyConflict(keypair, side, current)
ConflictRecords == (Keys \X Keys) \X KeyLoc \X Keys

\* side.toabs(fromside)
KeyLocToabs ==
    /\ Ready
    /\ \E side, fromside \in KeyLoc :
       \E s \in {KeyLoc_toabs_call(side, fromside)} :
        /\ call' = Call("KeyLoc.toabs", <<side, fromside>>, << >>)
        /\ pre' = Snapshot
        /\ db' = db
        /\ suffixes' = suffixes
        /\ raised' = s.raised
        /\ excargs' = s.args
        /\ result' = s.value
        /\ UNCHANGED <<ltr, rtl>>

\* side.torel(fromside)
KeyLocTorel ==
    /\ Ready
    /\ \E side, fromside \in KeyLoc :
       \E s \in {KeyLoc_torel_call(side, fromside)} :
        /\ call' = Call("KeyLoc.torel", <<side, fromside>>, << >>)
        /\ pre' = Snapshot
        /\ db' = db
        /\ suffixes' = suffixes
        /\ raised' = s.raised
        /\ excargs' = s.args
        /\ result' = s.value
        /\ UNCHANGED <<ltr, rtl>>

\* side.flip()
KeyLocFlip ==
    /\ Ready
    /\ \E side \in KeyLoc :
        /\ call' = Call("KeyLoc.flip", <<side>>, << >>)
        /\ pre' = Snapshot
        /\ db' = db
        /\ suffixes' = suffixes
        /\ raised' = "none"
        /\ excargs' = << >>
        /\ result' = flip(side)
        /\ UNCHANGED <<ltr, rtl>>

\* side.relative
KeyLocRelative ==
    /\ Ready
    /\ \E side \in KeyLoc :
        /\ call' = Call("KeyLoc.relative", <<side>>, << >>)
        /\ pre' = Snapshot
        /\ db' = db
        /\ suffixes' = suffixes
        /\ raised' = "none"
        /\ excargs' = << >>
        /\ result' = relative(side)
        /\ UNCHANGED <<ltr, rtl>>

\* e.toabs(fromside)
ConflictToabs ==
    /\ Ready
    /\ \E e \in ConflictRecords : \E fromside \in KeyLoc :
       \E s \in {Conflict_toabs_call(e, fromside)} :
        /\ call' = Call("Conflict.toabs", <<e, fromside>>, << >>)
        /\ pre' = Snapshot
        /\ db' = db
        /\ suffixes' = suffixes
        /\ raised' = s.raised
        /\ excargs' = s.args
        /\ result' = s.value
        /\ UNCHANGED <<ltr, rtl>>

\* e.torel(fromside)
ConflictTorel ==
    /\ Ready
    /\ \E e \in ConflictRecords : \E fromside \in KeyLoc :
       \E s \in {Conflict_torel_call(e, fromside)} :
        /\ call' = Call("Conflict.torel", <<e, fromside>>, << >>)
        /\ pre' = Snapshot
        /\ db' = db
        /\ suffixes' = suffixes
        /\ raised' = s.raised
        /\ excargs' = s.args
        /\ result' = s.value
        /\ UNCHANGED <<ltr, rtl>>

LocNext ==
    \/ Return
    \/ KeyLocToabs
    \/ KeyLocTorel
    \/ KeyLocFlip
    \/ KeyLocRelative
    \/ ConflictToabs
    \/ ConflictTorel

LocSpec == KeyInit /\ [][LocNext]_vars

----------------------------------------------------------------------------
\* Rekeying a bibliography database: update_keys and revert_keys of
\* paperpile_tools.bibliography.  An entry is a dict with the field "ID" and,
\* when it has been rekeyed, the side attribute "paperpile_key"; the other
\* fields of an entry are never read or written and are left out.

SideAttr == "paperpile_key"

\* check_entries: KeyError at the first entry whose ID was seen before
check_entries(entries) ==
    LET dup == {i \in 1..Len(entries) :
                   \E j \in 1..(i - 1) : entries[j]["ID"] = entries[i]["ID"]}
    IN  IF dup = {} THEN Returned(NoResult)
        ELSE Raising("KeyError",
                     <<"Duplicate ID",
                       entries[CHOOSE i \in dup : \A j \in dup : i <= j]["ID"]>>)

\* make_db(entries): the entries of the new database, or check_entries' error
make_db(entries) ==
    IF check_entries(entries).raised # "none" THEN check_entries(entries)
    ELSE Returned(entries)

\* The body of update_keys' loop on one (copied) entry; ltrdict is
\* keymap.ltr.dict
update_entry(entry, ltrdict, store_original) ==
    IF entry["ID"] \notin DOMAIN ltrdict THEN entry
    ELSE LET renamed == DictPut(entry, "ID", ltrdict[entry["ID"]])
         IN  IF store_original /\ SideAttr \notin DOMAIN entry
             THEN DictPut(renamed, SideAttr, entry["ID"])
             ELSE renamed

\* What a rekeying call leaves behind: the entries of the database it was
\* given, as they are after the call, and what it returned or raised
Rekeyed_db(given, out) == [given |-> given, out |-> out]

\* update_keys that works on the entries of db themselves, not on copies
update_keys_inplace(entries, ltrdict, store_original) ==
    Rekeyed_db([i \in 1..Len(entries) |->
                   update_entry(entries[i], ltrdict, store_original)],
               make_db([i \in 1..Len(entries) |->
                           update_entry(entries[i], ltrdict, store_original)]))

\* update_keys(db, keymap, store_original), keymap a Bijection (get_bijection
\* returns it as it is): the loop runs on list(map(dict, db.entries))
update_keys(entries, ltrdict, store_original) ==
    Rekeyed_db(entries,
               make_db([i \in 1..Len(entries) |->
                           update_entry(entries[i], ltrdict, store_original)]))

\* The body of revert_keys' loop on one (copied) entry
revert_entry(entry) ==
    IF SideAttr \notin DOMAIN entry THEN entry
    ELSE DictPut(DictRemove(entry, SideAttr), "ID", entry[SideAttr])

\* revert_keys(db)
revert_keys(entries) ==
    Rekeyed_db(entries,
               make_db([i \in 1..Len(entries) |-> revert_entry(entries[i])]))

DbKeys == 1..MaxId

\* Entries with and without the side attribute
Entries ==
    {DictPut(EmptyDict, "ID", k) : k \in DbKeys} \cup
    {DictPut(DictPut(EmptyDict, "ID", k), SideAttr, p) : k, p \in DbKeys}

\* The entry lists of a BibDatabase; nothing keeps the IDs of db.entries
\* distinct before check_entries is called
Dbs == BoundedSeq(Entries, MaxDb)

\* The keymaps handed to update_keys: the ltr dict of every Bijection on DbKeys
RekeyMaps ==
    {DictOf(ps) : ps \in {qs \in BoundedSeq(DbKeys \X DbKeys, MaxId) :
                              DistinctAt(qs, 1) /\ DistinctAt(qs, 2)}}

\* The caller has loaded a database
DbInit ==
    /\ ltr = EmptyDict
    /\ rtl = EmptyDict
    /\ call = NoCall
    /\ raised = "none"
    /\ excargs = << >>
    /\ pre = Snapshot
    /\ result = NoResult
    /\ db \in Dbs
    /\ suffixes = 0

\* update_keys(db, keymap, store_original)
UpdateKeys ==
    /\ Ready
    /\ \E keymap \in RekeyMaps : \E store_original \in BOOLEAN :
       \E s \in {update_keys(db, keymap, store_original)} :
        /\ call' = Call("update_keys", <<keymap, store_original>>, db)
        /\ pre' = pre
        /\ db' = s.given
        /\ suffixes' = suffixes
        /\ raised' = s.out.raised
        /\ excargs' = s.out.args
        /\ result' = s.out.value
        /\ UNCHANGED <<ltr, rtl>>

\* revert_keys(db2), db2 the database the last update_keys call returned
RevertKeys ==
    /\ call.op = "update_keys"
    /\ raised = "none"
    /\ \E s \in {revert_keys(result)} :
        /\ call' = Call("revert_keys", call.pair, s.given)
        /\ pre' = pre
        /\ db' = db
        /\ suffixes' = suffixes
        /\ raised' = s.out.raised
        /\ excargs' = s.out.args
        /\ result' = s.out.value
        /\ UNCHANGED <<ltr, rtl>>

\* The body of the loop of pptools.bibliography.revert_keys on one entry:
\* entry['ID'] = entry.pop(attr), skipped on KeyError
pptools_revert_entry(entry, attr) ==
    IF attr \notin DOMAIN entry THEN entry
    ELSE DictPut(DictRemove(entry, attr), "ID", entry[attr])

\* pptools.bibliography.revert_keys(db, attr, inplace).  The loop runs on
\* db.entries themselves when inplace is true and on copies otherwise; the
\* last line returns make_db(entries) when inplace is true and db itself
\* otherwise (make_db and check_entries of pptools.bibliography are, line
\* for line, those of paperpile_tools.bibliography).  The value returned is
\* given by the entries of the database returned.
pptools_revert_keys(entries, attr, inplace) ==
    LET reverted == [i \in 1..Len(entries) |->
                        pptools_revert_entry(entries[i], attr)]
    IN  IF inplace THEN Rekeyed_db(reverted, make_db(reverted))
        ELSE Rekeyed_db(entries, Returned(entries))

\* pptools.bibliography.revert_keys(db, attr, inplace) on the caller's db
PptoolsRevertKeys ==
    /\ Ready
    /\ \E inplace \in BOOLEAN :
       \E s \in {pptools_revert_keys(db, SideAttr, inplace)} :
        /\ call' = Call("pptools.revert_keys", <<SideAttr, inplace>>, db)
        /\ pre' = pre
        /\ db' = s.given
        /\ suffixes' = suffixes
        /\ raised' = s.out.raised
        /\ excargs' = s.out.args
        /\ result' = s.out.value
        /\ UNCHANGED <<ltr, rtl>>

DbNext ==
    \/ Return
    \/ UpdateKeys
    \/ RevertKeys
    \/ PptoolsRevertKeys

DbSpec == DbInit /\ [][DbNext]_vars

----------------------------------------------------------------------------
\* Properties

Pairs(d) == {<<k, d[k]>> : k \in DOMAIN d}

Without(d, k) == [x \in (DOMAIN d) \ {k} |-> d[x]]

Conflict == "BijectionKeyConflict"

SetOps == {"ltr_set", "rtl_set", "add"}

DelOps == {"ltr_del", "rtl_del"}

OnRight == call.op \in {"rtl_set", "rtl_del"}

\* The dict of the view the last call went through, and of the opposite view,
\* before and after the call
PreView == IF OnRight THEN pre.rtl ELSE pre.ltr

PreOpp == IF OnRight THEN pre.ltr ELSE pre.rtl

PostView == IF OnRight THEN rtl ELSE ltr

PostOpp == IF OnRight THEN ltr ELSE rtl

Unchanged == ltr = pre.ltr /\ rtl = pre.rtl

\* C1: in every reachable state, also after a call that ended in a conflict
\* or a KeyError, ltr[l] = r exactly when rtl[r] = l; so rtl[ltr[l]] = l for
\* every left key and ltr[rtl[r]] = r for every right key.
C1_TwoViewsAgree ==
    /\ \A l, r \in Keys :
          (l \in DOMAIN ltr /\ ltr[l] = r) <=> (r \in DOMAIN rtl /\ rtl[r] = l)
    /\ \A l \in DOMAIN ltr : ltr[l] \in DOMAIN rtl /\ rtl[ltr[l]] = l
    /\ \A r \in DOMAIN rtl : rtl[r] \in DOMAIN ltr /\ ltr[rtl[r]] = r

\* A merge that evicted, inserted and then hit a conflict
C1_Witness ==
    /\ call.op \in {"update_left", "update_right"}
    /\ raised = Conflict
    /\ ltr # pre.ltr
    /\ DOMAIN ltr # {}

\* C2: when add((l, r)) returns without error, (l, r) is contained,
\* ltr[l] = r and rtl[r] = l.
C2_AddThenContains ==
    (call.op = "add" /\ raised = "none") =>
        /\ contains(ltr, call.pair)
        /\ call.pair[1] \in DOMAIN ltr /\ ltr[call.pair[1]] = call.pair[2]
        /\ call.pair[2] \in DOMAIN rtl /\ rtl[call.pair[2]] = call.pair[1]

\* add inserted a pair that was not there
C2_Witness ==
    /\ call.op = "add"
    /\ raised = "none"
    /\ ~contains(pre.ltr, call.pair)
    /\ DOMAIN pre.ltr # {}

\* C3: add((l, r)) when l is a left key mapped to r_old # r raises a conflict
\* with keypair (l, r), side RIGHT and current r_old, whether or not r is in
\* use on the right.
C3_AddLeftKeyTaken ==
    (/\ call.op = "add"
     /\ call.pair[1] \in DOMAIN pre.ltr
     /\ pre.ltr[call.pair[1]] # call.pair[2]) =>
        /\ raised = Conflict
        /\ excargs = <<call.pair, RIGHT, pre.ltr[call.pair[1]]>>

\* l is taken and r is taken too, by another left key
C3_Witness ==
    /\ call.op = "add"
    /\ call.pair[1] \in DOMAIN pre.ltr
    /\ pre.ltr[call.pair[1]] # call.pair[2]
    /\ call.pair[2] \in DOMAIN pre.rtl
    /\ raised = Conflict

\* C4: add((l, r)) when l is not a left key and r is a right key paired with
\* l_old # l raises a conflict with keypair (l, r), side LEFT, current l_old.
C4_AddRightKeyTaken ==
    (/\ call.op = "add"
     /\ call.pair[1] \notin DOMAIN pre.ltr
     /\ call.pair[2] \in DOMAIN pre.rtl
     /\ pre.rtl[call.pair[2]] # call.pair[1]) =>
        /\ raised = Conflict
        /\ excargs = <<call.pair, LEFT, pre.rtl[call.pair[2]]>>

C4_Witness ==
    /\ call.op = "add"
    /\ call.pair[1] \notin DOMAIN pre.ltr
    /\ call.pair[2] \in DOMAIN pre.rtl
    /\ raised = Conflict

\* C5: view[k] = v on ltr or rtl: if k is a key of the view with another value
\* v_old the call fails with side TO, keypair (k, v), current v_old, and this
\* check comes first; otherwise if v is a key of the opposite view paired with
\* k2 # k it fails with side FROM, keypair (k, v), current k2.
C5_AssignConflict ==
    (call.op \in {"ltr_set", "rtl_set"}) =>
        LET k == call.pair[1]
            v == call.pair[2]
            keyTaken == k \in DOMAIN PreView /\ PreView[k] # v
            valueTaken == v \in DOMAIN PreOpp /\ PreOpp[v] # k
        IN  /\ keyTaken =>
                (raised = Conflict /\ excargs = <<<<k, v>>, TO, PreView[k]>>)
            /\ (~keyTaken /\ valueTaken) =>
                (raised = Conflict /\ excargs = <<<<k, v>>, FROM, PreOpp[v]>>)

\* an assignment through rtl where both checks would fire
C5_Witness ==
    /\ call.op = "rtl_set"
    /\ call.pair[1] \in DOMAIN pre.rtl
    /\ pre.rtl[call.pair[1]] # call.pair[2]
    /\ call.pair[2] \in DOMAIN pre.ltr
    /\ pre.ltr[call.pair[2]] # call.pair[1]
    /\ raised = Conflict

\* C6: when an assignment through ltr or rtl, or add, fails with a conflict,
\* both dicts are as they were before the call.
C6_ConflictLeavesMaps ==
    (call.op \in SetOps /\ raised = Conflict) => Unchanged

\* the conflict found on the opposite view, after the key's own check passed
C6_Witness ==
    /\ call.op \in SetOps
    /\ raised = Conflict
    /\ call.pair[1] \notin DOMAIN PreView
    /\ DOMAIN ltr # {}

\* C7: assigning a pair that is already present succeeds and changes nothing;
\* so after a successful assignment, the same assignment again succeeds and
\* leaves the state as it is.
C7_AssignIdempotent ==
    (call.op \in SetOps) =>
        /\ contains(PreView, call.pair) => (raised = "none" /\ Unchanged)
        /\ raised = "none" =>
              setitem(PostView, PostOpp, call.pair[1], call.pair[2])
                  = Outcome(PostView, PostOpp, "none", << >>)

C7_Witness ==
    /\ call.op = "rtl_set"
    /\ contains(pre.rtl, call.pair)
    /\ raised = "none"

\* C8: deleting key k through a view: if k is present with value v, then
\* afterwards k is absent from the view, v is absent from the opposite view
\* and every other pair is as before; if k is absent the call fails with
\* KeyError and both dicts are unchanged.
C8_Delete ==
    (call.op \in DelOps) =>
        LET k == call.pair[1]
        IN  IF k \in DOMAIN PreView
            THEN /\ raised = "none"
                 /\ k \notin DOMAIN PostView
                 /\ PreView[k] \notin DOMAIN PostOpp
                 /\ PostView = Without(PreView, k)
                 /\ PostOpp = Without(PreOpp, PreView[k])
            ELSE raised = "KeyError" /\ Unchanged

\* a pair deleted through rtl while another pair stays
C8_Witness ==
    /\ call.op = "rtl_del"
    /\ call.pair[1] \in DOMAIN pre.rtl
    /\ DOMAIN rtl # {}
    /\ raised = "none"

\* C9: discard((l, r)) fails with KeyError and changes nothing when (l, r) is
\* not a member, also when l is mapped to another right key or r is paired
\* with another left key; when (l, r) is a member exactly that pair goes from
\* both views.
C9_Discard ==
    (call.op = "discard") =>
        LET l == call.pair[1]
            r == call.pair[2]
        IN  IF l \in DOMAIN pre.ltr /\ pre.ltr[l] = r
            THEN /\ raised = "none"
                 /\ ltr = Without(pre.ltr, l)
                 /\ rtl = Without(pre.rtl, r)
            ELSE raised = "KeyError" /\ Unchanged

\* l is mapped to another right key, r is paired with another left key
C9_Witness ==
    /\ call.op = "discard"
    /\ call.pair[1] \in DOMAIN pre.ltr
    /\ pre.ltr[call.pair[1]] # call.pair[2]
    /\ call.pair[2] \in DOMAIN pre.rtl
    /\ raised = "KeyError"

OtherLeft == {call.other[i][1] : i \in 1..Len(call.other)}

OtherPairSet == {call.other[i] : i \in 1..Len(call.other)}

\* C10: when update_left(other) returns without error, the pairs of self are
\* the pairs of other plus the pairs self held whose left key is not a left
\* key of other.
C10_UpdateLeftResult ==
    (call.op = "update_left" /\ raised = "none") =>
        LET expected ==
                OtherPairSet \cup {p \in Pairs(pre.ltr) : p[1] \notin OtherLeft}
        IN  /\ Pairs(ltr) = expected
            /\ Pairs(rtl) = {Reversed(p) : p \in expected}

\* target {1: 1, 2: 2} merged with source {1: 3} gives {1: 3, 2: 2}
C10_Witness ==
    /\ call.op = "update_left"
    /\ raised = "none"
    /\ Pairs(pre.ltr) = {<<1, 1>>, <<2, 2>>}
    /\ call.other = <<<<1, 3>>>>
    /\ Pairs(ltr) = {<<1, 3>>, <<2, 2>>}

UpdateOps == {"update_left", "update_right"}

\* other is one-to-one: a Bijection, or a mapping that from_ltr / from_rtl
\* wraps without a conflict
OtherOneToOne == DistinctAt(call.other, 1) /\ DistinctAt(call.other, 2)

\* Keys of other on the merged side (call.other holds the items of the merged
\* map: <<left, right>> for update_left, <<right, left>> for update_right)
OtherKeys == {call.other[i][1] : i \in 1..Len(call.other)}

\* The merged view and the view opposite to it, before and after the merge
MergedPre == IF call.op = "update_right" THEN pre.rtl ELSE pre.ltr

MergedPreOpp == IF call.op = "update_right" THEN pre.ltr ELSE pre.rtl

MergedPost == IF call.op = "update_right" THEN rtl ELSE ltr

\* The item <<key, value>> of other collides: self paired value with a key
\* that other does not evict
Collides(item) ==
    /\ item[2] \in DOMAIN MergedPreOpp
    /\ MergedPreOpp[item[2]] \notin OtherKeys

\* C11: for other a Bijection, update_left(other) fails exactly when other
\* pairs some l with an r that self paired with a left key l2 that is not a
\* left key of other; it then raises a conflict with side LEFT, keypair (l, r)
\* and current l2 for such a triple.  A merge that swaps right keys among
\* other's own left keys succeeds.
C11_UpdateLeftFailsIff ==
    (call.op = "update_left" /\ OtherOneToOne) =>
        /\ raised \in {"none", Conflict}
        /\ raised = Conflict <=> \E item \in OtherPairSet : Collides(item)
        /\ raised = Conflict =>
              \E item \in OtherPairSet :
                  /\ Collides(item)
                  /\ excargs = <<item, LEFT, pre.rtl[item[2]]>>

\* the second pair of other collides after the first was merged
C11_Witness ==
    /\ call.op = "update_left"
    /\ OtherOneToOne
    /\ Len(call.other) = 2
    /\ call.other[1][1] \in DOMAIN pre.ltr
    /\ ~Collides(call.other[1])
    /\ raised = Conflict

\* What a failed merge leaves: every key of other on the merged side is absent
\* or mapped to other's value, and every pair of self whose key on that side
\* is not in other is still there.
PartlyMerged ==
    /\ \A item \in OtherPairSet :
          item[1] \in DOMAIN MergedPost => MergedPost[item[1]] = item[2]
    /\ \A k \in (DOMAIN MergedPre) \ OtherKeys :
          k \in DOMAIN MergedPost /\ MergedPost[k] = MergedPre[k]

\* C12 as stated: whenever update_left(other) or update_right(other) fails
\* with a conflict, the evictions and the insertions made so far remain.
C12_AsStated ==
    (call.op \in UpdateOps /\ raised = Conflict) => PartlyMerged

\* C12, amended: when update_left(other) or update_right(other) fails with a
\* conflict and other is a Bijection or a one-to-one mapping, the evictions
\* and the insertions made so far remain; when other is a mapping that is not
\* one-to-one, the call fails while wrapping it and self is unchanged.
C12_FailedMergeNotRolledBack ==
    (call.op \in UpdateOps /\ raised = Conflict) =>
        IF OtherOneToOne
        THEN /\ PartlyMerged
             /\ \A item \in OtherPairSet :
                   (item[1] \in DOMAIN MergedPre /\ MergedPre[item[1]] # item[2])
                       => ~contains(MergedPost, <<item[1], MergedPre[item[1]]>>)
        ELSE Unchanged

\* an entry of self was evicted, a pair of other inserted, then a conflict
C12_Witness ==
    /\ call.op \in UpdateOps
    /\ raised = Conflict
    /\ OtherOneToOne
    /\ \E item \in OtherPairSet :
          /\ item[1] \in DOMAIN MergedPre
          /\ MergedPre[item[1]] # item[2]
          /\ contains(MergedPost, item)

\* C13 as stated: update_right(other) fails exactly when other pairs some l
\* with r where self paired l with a right key r2 that is not a right key of
\* other, with side RIGHT, keypair (l, r) and current r2.
C13_AsStated ==
    (call.op = "update_right") =>
        /\ raised = Conflict <=> \E item \in OtherPairSet : Collides(item)
        /\ raised = Conflict =>
              \E item \in OtherPairSet :
                  /\ Collides(item)
                  /\ excargs = <<Reversed(item), RIGHT, pre.ltr[item[2]]>>

\* C13, amended: for other a Bijection or a one-to-one mapping,
\* update_right(other) evicts before it inserts and fails exactly when other
\* pairs some l with r where self paired l with a right key r2 that is not a
\* right key of other, with side RIGHT, keypair (l, r) and current r2; for a
\* mapping that is not one-to-one it always fails and leaves self unchanged.
C13_UpdateRightFailsIff ==
    (call.op = "update_right") =>
        IF OtherOneToOne
        THEN /\ raised \in {"none", Conflict}
             /\ raised = Conflict <=> \E item \in OtherPairSet : Collides(item)
             /\ raised = Conflict =>
                   \E item \in OtherPairSet :
                       /\ Collides(item)
                       /\ excargs = <<Reversed(item), RIGHT, pre.ltr[item[2]]>>
        ELSE raised = Conflict /\ Unchanged

\* a collision met after an entry of self was evicted for other's right key
C13_Witness ==
    /\ call.op = "update_right"
    /\ OtherOneToOne
    /\ \E item \in OtherPairSet : item[1] \in DOMAIN pre.rtl /\ ~Collides(item)
    /\ raised = Conflict
    /\ excargs[1][1] # excargs[1][2]

\* The two dicts of the Bijection passed to conflicts
OtherLtr == DictOf(call.other)

OtherRtl == DictOf(RtlItems(call.other))

\* C14: the second mapping returned by self.conflicts(other) has as keys the
\* right keys present in both whose left keys differ, each mapped to
\* (self.rtl[right], other.rtl[right]), and the call returns normally for
\* every pair of bijections.
C14_ConflictsRight ==
    (call.op = "conflicts") =>
        /\ raised = "none"
        /\ result # NoResult
        /\ result[2] =
              [right \in {k \in (DOMAIN rtl) \cap (DOMAIN OtherRtl) :
                              rtl[k] # OtherRtl[k]} |->
                  <<rtl[right], OtherRtl[right]>>]

\* C15: the first mapping returned by self.conflicts(other) has as keys the
\* left keys present in both whose right values differ, each mapped to
\* (self.ltr[left], other.ltr[left]); the call does not modify self.
C15_ConflictsLeft ==
    (call.op = "conflicts") =>
        /\ Unchanged
        /\ raised = "none" =>
              result[1] =
                  [left \in {k \in (DOMAIN pre.ltr) \cap (DOMAIN OtherLtr) :
                                 pre.ltr[k] # OtherLtr[k]} |->
                      <<pre.ltr[left], OtherLtr[left]>>]

\* conflicts returned, with a left key that the two bijections map differently
C15_Witness ==
    /\ call.op = "conflicts"
    /\ raised = "none"
    /\ DOMAIN result[1] # {}

\* The arguments of the last make_keymap / assign_reduced_keys call and the
\* two values it returned
ArgKeys == call.other

ArgF == call.pair[1]

ArgKeymap == call.pair[1]

Updates == result[1]

KeyConflicts == result[2]

\* The keys of the list that f changes into v, in the order of the list
Group(v) == SelectSeq(ArgKeys, LAMBDA k : ArgF[k] = v /\ k # v)

Listed(keys, k) == \E i \in 1..Len(keys) : keys[i] = k

Rekeyed(k) == IF k \in DOMAIN Updates.ltr THEN Updates.ltr[k] ELSE k

\* C17: for pairwise-distinct original keys, replacing each left key of
\* updates by its new key and leaving every other key alone gives identifiers
\* that are still pairwise distinct.
C17_NoCollision ==
    (/\ call.op \in {"make_keymap", "assign_reduced_keys"}
     /\ raised = "none"
     /\ \A i, j \in 1..Len(ArgKeys) : ArgKeys[i] = ArgKeys[j] => i = j) =>
        \A i, j \in 1..Len(ArgKeys) :
            Rekeyed(ArgKeys[i]) = Rekeyed(ArgKeys[j]) => i = j

\* The keys of the list that are not left keys of the keymap and that
\* reduce_key changes into v, in the order of the list
ReducedGroup(v) ==
    SelectSeq(ArgKeys, LAMBDA k : /\ k \notin DOMAIN ArgKeymap
                                  /\ reduce_key(k) = v
                                  /\ k # v)

\* C18: in assign_reduced_keys(keys, keymap), a key that is a left key of
\* keymap is neither a left key of updates nor listed in a conflict, and a
\* reduced key that is a right key of keymap is never assigned: its group is
\* recorded in conflicts even when it holds a single key.
C18_ExistingKeymap ==
    (call.op = "assign_reduced_keys") =>
        /\ raised = "none"
        /\ \A k \in DOMAIN ArgKeymap :
            /\ k \notin DOMAIN Updates.ltr
            /\ \A v \in DOMAIN KeyConflicts : ~Listed(KeyConflicts[v], k)
        /\ \A v \in RightKeys(ArgKeymap) :
            /\ v \notin DOMAIN Updates.rtl
            /\ ReducedGroup(v) # << >> =>
                  v \in DOMAIN KeyConflicts /\ KeyConflicts[v] = ReducedGroup(v)

\* A listed key is a left key of the keymap, and another key, alone in its
\* group, reduces to a right key of the keymap
C18_Witness ==
    /\ call.op = "assign_reduced_keys"
    /\ raised = "none"
    /\ \E k \in DOMAIN ArgKeymap : Listed(ArgKeys, k) /\ reduce_key(k) # k
    /\ \E v \in RightKeys(ArgKeymap) : Len(ReducedGroup(v)) = 1

\* Position of a lower case letter in the alphabet
Rank(c) == CHOOSE i \in 1..Len(ascii_lowercase) : ascii_lowercase[i] = c

\* s comes before t in the order "a", "b", ..., "z", "aa", "ab", ...
Before(s, t) ==
    \/ Len(s) < Len(t)
    \/ /\ Len(s) = Len(t)
       /\ \E i \in 1..Len(s) :
            /\ Rank(s[i]) < Rank(t[i])
            /\ \A j \in 1..(i - 1) : s[j] = t[j]

\* The non-empty strings of at most n lower case letters
LetterStrings(n) ==
    UNION {[1..m -> {ascii_lowercase[i] : i \in 1..Len(ascii_lowercase)}] :
              m \in 1..n}

\* The arguments of the last dedup_key call
ArgKey == call.pair[1]

ArgSep == call.pair[2]

ArgExisting == call.other

\* dedup_key may return key + sep + s
Free(s) ==
    /\ ArgKey \o ArgSep \o s \notin ArgExisting
    /\ ~(s = <<"a">> /\ ArgKey \in ArgExisting)

\* What dedup_key appended to key + sep
Suffix == SubSeq(result, Len(ArgKey) + Len(ArgSep) + 1, Len(result))

\* C19: dedup_key(key, existing, sep) returns key + sep + s for the first s,
\* by length and then lexicographically, with key + sep + s not in existing,
\* the candidate "a" being skipped when the bare key is in existing; the
\* result is never in existing; dedup_key("foo", {"foo", "fooa"}) = "foob" and
\* dedup_key("foo", {}) = "fooa".
C19_DedupKey ==
    (call.op = "dedup_key") =>
        /\ result = ArgKey \o ArgSep \o Suffix
        /\ Suffix \in LetterStrings(Len(Suffix))
        /\ Free(Suffix)
        /\ \A s \in LetterStrings(Len(Suffix)) : Before(s, Suffix) => ~Free(s)
        /\ result \notin ArgExisting
        /\ (/\ call.pair = <<<<"f", "o", "o">>, << >>>>
            /\ ArgExisting = {<<"f", "o", "o">>, <<"f", "o", "o", "a">>}) =>
              result = <<"f", "o", "o", "b">>
        /\ (call.pair = <<<<"f", "o", "o">>, << >>>> /\ ArgExisting = {}) =>
              result = <<"f", "o", "o", "a">>

\* The bare key is taken and key + "a" is not: "a" is skipped
C19_Witness ==
    /\ call.op = "dedup_key"
    /\ ArgKey \in ArgExisting
    /\ ArgKey \o ArgSep \o <<"a">> \notin ArgExisting
    /\ result = ArgKey \o ArgSep \o <<"b">>

\* Two of the pairs given to the constructor share a left key with different
\* right keys, or a right key with different left keys
PairsClash(pairs) ==
    \E i, j \in 1..Len(pairs) :
        \/ pairs[i][1] = pairs[j][1] /\ pairs[i][2] # pairs[j][2]
        \/ pairs[i][2] = pairs[j][2] /\ pairs[i][1] # pairs[j][1]

\* C20: constructing a Bijection from pairs two of which share a left key
\* with different right keys, or a right key with different left keys, raises
\* BijectionKeyConflict.
C20_ConstructorConflict ==
    (call.op = "Bijection" /\ PairsClash(call.other)) => raised = Conflict

C20_Witness ==
    /\ call.op = "Bijection"
    /\ PairsClash(call.other)
    /\ raised = Conflict

\* The same pair stands at two places of the iterable given to the constructor
PairTwice(pairs) ==
    \E i, j \in 1..Len(pairs) : i # j /\ pairs[i] = pairs[j]

\* C21: constructing a Bijection from an iterable of pairs that holds the same
\* (left, right) pair twice raises an error.
C21_DuplicatePairRaises ==
    (call.op = "Bijection" /\ PairTwice(call.other)) => raised # "none"

\* The receiver and the anchor of the last conversion
Receiver == call.pair[1]

Anchor == call.pair[2]

Absolute == {LEFT, RIGHT}

Relative == {FROM, TO}

KeyLocConversions == {"KeyLoc.toabs", "KeyLoc.torel"}

ConflictConversions == {"Conflict.toabs", "Conflict.torel"}

\* C22: flip(flip(x)) = x for all four values, and for an absolute anchor s,
\* toabs(torel(v, s), s) = v for every absolute v and torel(toabs(v, s), s) = v
\* for every relative v.
C22_KeyLocRoundTrip ==
    /\ (call.op = "KeyLoc.flip") => flip(result) = Receiver
    /\ (call.op = "KeyLoc.torel" /\ Anchor \in Absolute /\ Receiver \in Absolute) =>
          /\ raised = "none"
          /\ KeyLoc_toabs_call(result, Anchor) = Returned(Receiver)
    /\ (call.op = "KeyLoc.toabs" /\ Anchor \in Absolute /\ Receiver \in Relative) =>
          /\ raised = "none"
          /\ KeyLoc_torel_call(result, Anchor) = Returned(Receiver)

\* RIGHT seen from RIGHT is FROM, which toabs takes back to RIGHT
C22_Witness ==
    /\ call.op = "KeyLoc.torel"
    /\ Receiver = RIGHT
    /\ Anchor = RIGHT
    /\ result = FROM

\* C23: the four conversions fail with ValueError whenever the anchor is
\* relative, for every receiver, also one already in the requested framing.
C23_RelativeAnchorFails ==
    (call.op \in KeyLocConversions \cup ConflictConversions /\ Anchor \in Relative) =>
        raised = "ValueError" /\ excargs = <<Anchor>>

\* An absolute side asked for its absolute value with a relative anchor
C23_Witness ==
    /\ call.op = "KeyLoc.toabs"
    /\ Receiver \in Absolute
    /\ Anchor \in Relative
    /\ raised = "ValueError"

\* The keypair of a conflict seen from the anchor s
Framed(keypair, s) == IF s = LEFT THEN keypair ELSE Reversed(keypair)

\* C24: for a conflict c with a relative side and an absolute anchor s,
\* c.toabs(s) has side c.side.toabs(s), the same current and the keypair of c,
\* reversed when s is RIGHT; for a conflict with an absolute side torel(s)
\* does the same with side.torel(s); a conflict already in the requested
\* framing is returned unchanged.
C24_ConflictReframe ==
    (call.op \in ConflictConversions /\ Anchor \in Absolute) =>
        /\ raised = "none"
        /\ (call.op = "Conflict.toabs" /\ Receiver[2] \in Relative) =>
              result = <<Framed(Receiver[1], Anchor),
                         KeyLoc_toabs(Receiver[2], Anchor), Receiver[3]>>
        /\ (call.op = "Conflict.torel" /\ Receiver[2] \in Absolute) =>
              result = <<Framed(Receiver[1], Anchor),
                         KeyLoc_torel(Receiver[2], Anchor), Receiver[3]>>
        /\ (call.op = "Conflict.toabs" /\ Receiver[2] \in Absolute) =>
              result = Receiver
        /\ (call.op = "Conflict.torel" /\ Receiver[2] \in Relative) =>
              result = Receiver

\* An absolute conflict seen from RIGHT: the keypair is reversed
C24_Witness ==
    /\ call.op = "Conflict.torel"
    /\ Anchor = RIGHT
    /\ Receiver[2] = LEFT
    /\ Receiver[1][1] # Receiver[1][2]
    /\ result = <<Reversed(Receiver[1]), TO, Receiver[3]>>

\* C25: for every conflict c and absolute anchor s, c.toabs(s).torel(s) is c
\* when c is relative and c.torel(s).toabs(s) is c when c is absolute.
C25_ConflictRoundTrip ==
    /\ (call.op = "Conflict.toabs" /\ Anchor \in Absolute /\ Receiver[2] \in Relative) =>
          /\ raised = "none"
          /\ Conflict_torel_call(result, Anchor) = Returned(Receiver)
    /\ (call.op = "Conflict.torel" /\ Anchor \in Absolute /\ Receiver[2] \in Absolute) =>
          /\ raised = "none"
          /\ Conflict_toabs_call(result, Anchor) = Returned(Receiver)

\* A relative conflict made absolute from RIGHT, with its keypair reversed
C25_Witness ==
    /\ call.op = "Conflict.toabs"
    /\ Anchor = RIGHT
    /\ Receiver[2] = TO
    /\ Receiver[1][1] # Receiver[1][2]
    /\ result[1] = Reversed(Receiver[1])

Opposite(s) == IF s = LEFT THEN RIGHT ELSE LEFT

\* C26: toabs returns an absolute value unchanged, maps FROM to the anchor s
\* and TO to the side opposite s; torel returns a relative value unchanged and
\* maps an absolute v to FROM when v = s and to TO otherwise; flip maps
\* LEFT <-> RIGHT and FROM <-> TO; relative is true exactly for FROM and TO.
C26_KeyLocTable ==
    /\ (call.op = "KeyLoc.toabs" /\ Anchor \in Absolute) =>
          result = IF Receiver \in Absolute THEN Receiver
                   ELSE IF Receiver = FROM THEN Anchor
                   ELSE Opposite(Anchor)
    /\ (call.op = "KeyLoc.torel" /\ Anchor \in Absolute) =>
          result = IF Receiver \in Relative THEN Receiver
                   ELSE IF Receiver = Anchor THEN FROM
                   ELSE TO
    /\ (call.op = "KeyLoc.flip") =>
          result = IF Receiver = LEFT THEN RIGHT
                   ELSE IF Receiver = RIGHT THEN LEFT
                   ELSE IF Receiver = FROM THEN TO
                   ELSE FROM
    /\ (call.op = "KeyLoc.relative") => result = (Receiver \in Relative)

\* TO seen from RIGHT is LEFT
C26_Witness ==
    /\ call.op = "KeyLoc.toabs"
    /\ Receiver = TO
    /\ Anchor = RIGHT
    /\ result = LEFT

\* The argument of the last membership test
ArgTested == call.pair[1]

IsPair(arg) == arg.tuple /\ Len(arg.items) = 2

\* C27: (l, r) in self is true iff l is a left key and ltr[l] = r,
\* equivalently iff r is a right key and rtl[r] = l; an argument that is not
\* a 2-tuple is reported as not contained, without raising.
C27_Contains ==
    (call.op = "contains") =>
        /\ raised = "none"
        /\ Unchanged
        /\ ~IsPair(ArgTested) => result = FALSE
        /\ IsPair(ArgTested) =>
              LET l == ArgTested.items[1]
                  r == ArgTested.items[2]
              IN  /\ result = (l \in DOMAIN ltr /\ ltr[l] = r)
                  /\ result = (r \in DOMAIN rtl /\ rtl[r] = l)

\* A pair that is a member is found, and a list of its two keys is not
C27_Witness ==
    /\ call.op = "contains"
    /\ ~ArgTested.tuple
    /\ Len(ArgTested.items) = 2
    /\ contains(ltr, ArgTested.items)
    /\ result = FALSE

\* C28: make_keymap(keys, f) never raises a BijectionKeyConflict, whatever the
\* keys (a key may be listed more than once) and the transform: ambiguity is
\* reported through the returned conflicts mapping only.
C28_MakeKeymapNeverRaises ==
    (call.op = "make_keymap") => raised # Conflict /\ result # NoResult

\* A key listed twice and two keys with one new key: both end in conflicts
C28_Witness ==
    /\ call.op = "make_keymap"
    /\ \E i, j \in 1..Len(ArgKeys) : i # j /\ ArgKeys[i] = ArgKeys[j]
    /\ \E i, j \in 1..Len(ArgKeys) :
          /\ ArgKeys[i] # ArgKeys[j]
          /\ ArgF[ArgKeys[i]] = ArgF[ArgKeys[j]]
          /\ ArgF[ArgKeys[i]] \notin {ArgKeys[i], ArgKeys[j]}
    /\ raised = "none"
    /\ DOMAIN KeyConflicts # {}

\* The items of the mapping, or the keys, handed to an alternate constructor
ArgItems == {call.other[i] : i \in 1..Len(call.other)}

\* C29: for an injective mapping m, from_ltr(m) holds exactly the pairs
\* (k, m[k]) and from_rtl(m) exactly the pairs (m[k], k); identity(keys) holds
\* exactly the pairs (k, k), in both directions; from_ltr and from_rtl of a
\* mapping that is not injective raise BijectionKeyConflict.
C29_AlternateConstructors ==
    /\ (call.op = "from_ltr") =>
          IF DistinctAt(call.other, 2)
          THEN /\ raised = "none"
               /\ Pairs(result.ltr) = ArgItems
               /\ Pairs(result.rtl) = {Reversed(it) : it \in ArgItems}
          ELSE raised = Conflict
    /\ (call.op = "from_rtl") =>
          IF DistinctAt(call.other, 2)
          THEN /\ raised = "none"
               /\ Pairs(result.ltr) = {Reversed(it) : it \in ArgItems}
               /\ Pairs(result.rtl) = ArgItems
          ELSE raised = Conflict
    /\ (call.op = "identity") =>
          /\ raised = "none"
          /\ Pairs(result.ltr) = {<<k, k>> : k \in ArgItems}
          /\ Pairs(result.rtl) = {<<k, k>> : k \in ArgItems}

\* from_rtl of an injective mapping of two items, none mapped to itself
C29_Witness ==
    /\ call.op = "from_rtl"
    /\ Len(call.other) = 2
    /\ \A it \in ArgItems : it[1] # it[2]
    /\ raised = "none"
    /\ Pairs(result.ltr) = {Reversed(it) : it \in ArgItems}

\* The IDs of a list of entries, in order
IDs(entries) == [i \in 1..Len(entries) |-> entries[i]["ID"]]

Carries(entries) == \E i \in 1..Len(entries) : SideAttr \in DOMAIN entries[i]

\* C30: for a database with pairwise-distinct IDs none of whose entries
\* carries the side attribute, and a keymap for which update_keys (with
\* store_original at its default, True) succeeds,
\* revert_keys(update_keys(db, keymap)) has the IDs of db in the same order
\* and no entry with the side attribute; update_keys leaves the entries of
\* the database it is given as they were.
C30_RekeyReversible ==
    /\ (/\ call.op = "revert_keys"
        /\ call.pair[2]
        /\ \A i, j \in 1..Len(db) : db[i]["ID"] = db[j]["ID"] => i = j
        /\ ~Carries(db)) =>
          /\ raised = "none"
          /\ IDs(result) = IDs(db)
          /\ ~Carries(result)
    /\ (call.op = "update_keys") => db = call.other

\* Two entries swap their IDs and get them back
C30_Witness ==
    /\ call.op = "revert_keys"
    /\ call.pair[2]
    /\ ~Carries(db)
    /\ Len(db) = 2
    /\ IDs(call.other) # IDs(db)
    /\ Carries(call.other)
    /\ raised = "none"
    /\ IDs(result) = IDs(db)

\* C31: revert_keys(db, attr, inplace) of pptools.bibliography.  With inplace
\* false the database returned has the entries of db with every entry that
\* carried attr given that value as its ID and attr removed, and the entries
\* of db are as they were; with inplace true the entries of db itself are
\* changed in that way.
C31_PptoolsRevert ==
    call.op = "pptools.revert_keys" =>
        LET attr == call.pair[1]
            inplace == call.pair[2]
            given == call.other
            reverted == [i \in 1..Len(given) |->
                            IF attr \in DOMAIN given[i]
                            THEN [f \in (DOMAIN given[i]) \ {attr} |->
                                     IF f = "ID" THEN given[i][attr]
                                     ELSE given[i][f]]
                            ELSE given[i]]
        IN  IF inplace THEN db = reverted
            ELSE /\ raised = "none"
                 /\ result = reverted
                 /\ db = given

\* C32: every BijectionKeyConflict that escapes update_left(other) has the
\* absolute side LEFT and every one that escapes update_right(other) has the
\* absolute side RIGHT, for a Bijection and for a plain mapping alike, a
\* mapping that is not one-to-one included.
C32_EscapingSideAbsolute ==
    (call.op \in UpdateOps /\ raised = Conflict) =>
        excargs[2] = (IF call.op = "update_left" THEN LEFT ELSE RIGHT)

\* The outcome the last assignment or deletion would have had from the same
\* state through the opposite view: rtl[r] = l for ltr[l] = r, del rtl[ltr[l]]
\* for del ltr[l], and the other way round.  dict is the dict of that
\* opposite view and other the dict of the view the call went through.
Mirrored ==
    IF call.op \in SetOps \ {"add"}
    THEN setitem(PreOpp, PreView, call.pair[2], call.pair[1])
    ELSE delitem(PreOpp, PreView, PreView[call.pair[1]])

\* C33: the two views are faces of one relation.  From every reachable state
\* and for all l and r, ltr[l] = r succeeds exactly when rtl[r] = l does, and
\* when they succeed both leave the same two dicts; deleting a left key l
\* through ltr and deleting ltr[l] through rtl (and the same from the right)
\* succeed and leave the same two dicts.
C33_ViewsMirror ==
    /\ (call.op \in {"ltr_set", "rtl_set"}) =>
          /\ (raised = "none") <=> (Mirrored.raised = "none")
          /\ (raised = "none") =>
                /\ PostView = Mirrored.other
                /\ PostOpp = Mirrored.dict
    /\ (call.op \in DelOps /\ call.pair[1] \in DOMAIN PreView) =>
          /\ raised = "none"
          /\ Mirrored.raised = "none"
          /\ PostView = Mirrored.other
          /\ PostOpp = Mirrored.dict

\* rtl[r] = l added a pair to a bijection that held one, as ltr[l] = r would
\* have done
C33_Witness ==
    /\ call.op = "rtl_set"
    /\ raised = "none"
    /\ pre.ltr # EmptyDict
    /\ ltr # pre.ltr
    /\ ltr = setitem(pre.ltr, pre.rtl, call.pair[2], call.pair[1]).dict
    /\ rtl = setitem(pre.ltr, pre.rtl, call.pair[2], call.pair[1]).other

\* C34: the updates returned by assign_reduced_keys(keys, keymap), keymap a
\* Bijection, share no left key and no right key with keymap, and merging
\* them into keymap pair by pair with add (keymap |= updates) raises no
\* BijectionKeyConflict, keeps every pair keymap had and leaves keymap with
\* exactly its own pairs and those of updates, in both directions.
C34_MergeUpdates ==
    /\ (call.op = "assign_reduced_keys" /\ raised = "none") =>
          /\ (DOMAIN Updates.ltr) \cap (DOMAIN ArgKeymap) = {}
          /\ (DOMAIN Updates.rtl) \cap RightKeys(ArgKeymap) = {}
    /\ (call.op = "ior") =>
          /\ raised = "none"
          /\ Pairs(ArgKeymap) \subseteq Pairs(result.ltr)
          /\ Pairs(result.ltr) = Pairs(ArgKeymap) \cup ArgItems
          /\ Pairs(result.rtl) = {Reversed(p) : p \in Pairs(result.ltr)}

\* Updates that hold a pair were merged into a keymap that held one
C34_Witness ==
    /\ call.op = "ior"
    /\ raised = "none"
    /\ call.other # << >>
    /\ ArgKeymap # EmptyDict
    /\ Pairs(ArgKeymap) \subseteq Pairs(result.ltr)
    /\ ArgItems \subseteq Pairs(result.ltr)

\* A dedup_key call is in its loop / has executed its return statement
Looping == call.op = "dedup_key loop" /\ result = NoResult

Returned_key == call.op = "dedup_key loop" /\ result # NoResult

\* C35: for every key, separator and finite collection existing, a dedup_key
\* call eventually returns; and the value returned depends on the arguments
\* alone, being the one the loop finds with a suffix sequence begun afresh, so
\* that two calls with the same arguments return the same value.
C35_TerminatesSameResult ==
    /\ Looping ~> Returned_key
    /\ [](Returned_key =>
            result = dedup_key(call.pair[1], call.other, call.pair[2]))

\* A second call, made after one that drew suffixes from its own generator,
\* has returned after running through all the one-letter suffixes
C35_Witness ==
    /\ Returned_key
    /\ suffixes > Len(ascii_lowercase)
    /\ Len(result) = Len(call.pair[1]) + Len(call.pair[2]) + 2

====
